---- MODULE Spec2Model ----
(***************************************************************************)
(* Model of logout.rs: a logger for the `log` facade.  A configuration     *)
(* (Logger<T>) is built with new_log / to_file / sink / time_format /      *)
(* max_log_level, installed once with enable, and then formats every       *)
(* enabled record into one line that it writes to its sink under a Mutex,  *)
(* falling back to stderr when the write fails or the Mutex is poisoned.   *)
(*                                                                         *)
(* Text is modelled as a sequence of string tokens; "\n" is the newline    *)
(* token.  A line is the token sequence that format! builds.               *)
(***************************************************************************)
EXTENDS Integers, Sequences, FiniteSets, TLC

\* ---------------------------------------------------------------- bounds
MaxCalls == 2        \* log calls issued to an installed logger, in total
MaxOps == 3          \* builder calls (new_log, to_file, sink, ...) in total
MaxFaults == 1       \* sink writes that fail or panic, in total

\* ------------------------------------------------------- program constants
Off == 0             \* LevelFilter::Off; Level::Error = 1 .. Level::Trace = 5
Info == 3            \* LevelFilter::Info

Threads == {1, 2}
Slots == {1, 2}                      \* places a caller keeps a Logger value in
Paths == {"app.log"}                 \* paths given to to_file
CustomSinks == {"sinkA"}             \* writers given to sink()
Dests == {"stderr"} \cup Paths \cup CustomSinks
TimeFormat == {"Rfc2822", "Rfc3339"}
LevelFilter == 0..5
Level == 1..5
LevelArgs == {Off, 5}                \* arguments tried for max_log_level
\* the records logged: level and message
Records == {<<1, "disk full">>, <<4, "tick">>}
\* how OffsetDateTime::now_local() resolves in this process: no offset can be
\* determined, or an offset with a seconds component
TzEnv == {"indeterminate", "seconds"}

LevelName(l) == <<"ERROR", "WARN", "INFO", "DEBUG", "TRACE">>[l]

\* ------------------------------------------------------------------ state
VARIABLES
    cfgs,        \* Slots -> Logger value held by the caller (or free)
    nops,        \* builder calls made so far
    installed,   \* the boxed logger log::set_boxed_logger stored (or free)
    maxLevel,    \* log::max_level(), the process-wide filter
    out,         \* Dests -> tokens written to that destination so far
    exists,      \* Paths -> does the file exist
    lockHolder,  \* thread holding the installed logger's Mutex (0: none)
    poisoned,    \* is that Mutex poisoned
    pc,          \* Threads -> position of the thread
    enabling,    \* Threads -> the Logger moved into the running enable()
    cur,         \* Threads -> the record being logged and its line
    ncalls,      \* log calls issued to an installed logger
    nfaults,     \* sink writes that failed before the line, after it, or panicked;
                 \* to_file calls whose open failed
    clock,       \* the system clock
    tz,          \* how the local UTC offset resolves in this process
    before,      \* Threads -> installed logger and maxLevel when enable() was called
    oks,         \* enable() calls that returned Ok and that returned the error
    done,        \* history: the log calls that reached the sink or stderr
    acquired     \* history: the calls that got the Mutex, in that order

vars == <<cfgs, nops, installed, maxLevel, out, exists, lockHolder, poisoned,
          pc, enabling, cur, ncalls, nfaults, clock, tz, before, oks,
          done, acquired>>

\* What the builder calls that produced a Logger asked for: the argument of the
\* last time_format call, of the last max_log_level call and of the last
\* to_file/sink call of the chain, or the defaults of new_log (history, kept
\* for checking only).
Asked(tf, lvl, dest) == [tf |-> tf, lvl |-> lvl, dest |-> dest]

\* A Logger value: its sink, time format and level.
NoCfg == [live |-> FALSE, sink |-> "stderr", time_format |-> "Rfc2822",
          level |-> Info, asked |-> Asked("Rfc2822", Info, "stderr")]

NoCall == [level |-> 1, msg |-> "", line |-> <<>>, stamp |-> 0]

NoBefore == [installed |-> NoCfg, maxLevel |-> Off]

OldContent == <<"old line", "\n">>   \* what an existing log file already holds

Init ==
    /\ cfgs = [s \in Slots |-> NoCfg]
    /\ nops = 0
    /\ installed = NoCfg
    /\ maxLevel = Off
    /\ exists \in [Paths -> BOOLEAN]
    /\ out = [d \in Dests |-> IF d \in Paths /\ exists[d] THEN OldContent ELSE <<>>]
    /\ lockHolder = 0
    /\ poisoned = FALSE
    /\ pc = [t \in Threads |-> "idle"]
    /\ enabling = [t \in Threads |-> NoCfg]
    /\ cur = [t \in Threads |-> NoCall]
    /\ ncalls = 0
    /\ nfaults = [err |-> 0, partial |-> 0, panic |-> 0, open |-> 0]
    /\ clock = 1
    /\ tz \in TzEnv
    /\ before = [t \in Threads |-> NoBefore]
    /\ oks = [ok |-> 0, err |-> 0]
    /\ done = <<>>
    /\ acquired = <<>>

\* ---------------------------------------------------------------- builder
\* Logger::new
New(sinkv) ==
    [live |-> TRUE, sink |-> sinkv, time_format |-> "Rfc2822", level |-> Info,
     asked |-> Asked("Rfc2822", Info, sinkv)]

\* (mutant) built with Logger::new: format and level are not carried over
WithSinkDefaults(self, sinkv) ==
    [live |-> TRUE, sink |-> sinkv, time_format |-> "Rfc2822", level |-> Info,
     asked |-> [self.asked EXCEPT !.dest = sinkv]]

\* the Logger that to_file and sink return for receiver self
WithSink(self, sinkv) ==
    [live |-> TRUE, sink |-> sinkv, time_format |-> self.time_format,
     level |-> self.level, asked |-> [self.asked EXCEPT !.dest = sinkv]]

\* the Logger that time_format returns
WithTimeFormat(self, tf) ==
    [live |-> TRUE, sink |-> self.sink, time_format |-> tf, level |-> self.level,
     asked |-> [self.asked EXCEPT !.tf = tf]]

\* (mutant) the time format is lost
WithLevelOnly(self, lvl) ==
    [live |-> TRUE, sink |-> self.sink, time_format |-> "Rfc2822", level |-> lvl,
     asked |-> [self.asked EXCEPT !.lvl = lvl]]

\* the Logger that max_log_level returns
WithLevel(self, lvl) ==
    [live |-> TRUE, sink |-> self.sink, time_format |-> self.time_format,
     level |-> lvl,
     asked |-> [self.asked EXCEPT !.lvl = lvl]]

BuilderFrame ==
    UNCHANGED <<installed, maxLevel, lockHolder, poisoned, pc, enabling, cur,
                ncalls, clock, tz, before, oks, done, acquired>>

\* a custom writer is owned by at most one Logger
Owned(d) ==
    \/ \E s \in Slots : cfgs[s].live /\ cfgs[s].sink = d
    \/ installed.live /\ installed.sink = d
    \/ \E t \in Threads : enabling[t].live /\ enabling[t].sink = d

new_log(s) ==
    /\ nops < MaxOps
    /\ ~cfgs[s].live
    /\ cfgs' = [cfgs EXCEPT ![s] =
                   New("stderr")]
    /\ nops' = nops + 1
    /\ UNCHANGED <<out, exists, nfaults>>
    /\ BuilderFrame

\* (mutant) the file is opened with truncate(true) instead of append(true)
to_file_truncating(s, r, path, opened) ==
    /\ nops < MaxOps
    /\ cfgs[s].live
    /\ ~cfgs[r].live
    /\ nops' = nops + 1
    /\ IF opened
       THEN /\ cfgs' = [cfgs EXCEPT ![r] =
                   WithSink(cfgs[s], path)]
            /\ exists' = [exists EXCEPT ![path] = TRUE]
            /\ out' = [out EXCEPT ![path] = <<>>]
            /\ UNCHANGED nfaults
       ELSE /\ nfaults' = [nfaults EXCEPT !.open = @ + 1]
            /\ UNCHANGED <<cfgs, exists, out>>
    /\ BuilderFrame

\* (mutant) to_file(self, ..): the receiver is moved into a call that fails
to_file_consuming(s, r, path, opened) ==
    /\ nops < MaxOps
    /\ cfgs[s].live
    /\ ~cfgs[r].live
    /\ nops' = nops + 1
    /\ IF opened
       THEN /\ cfgs' = [cfgs EXCEPT ![r] =
                   WithSink(cfgs[s], path)]
            /\ exists' = [exists EXCEPT ![path] = TRUE]
            /\ UNCHANGED nfaults
       ELSE /\ nfaults' = [nfaults EXCEPT !.open = @ + 1]
            /\ cfgs' = [cfgs EXCEPT ![s] = NoCfg]
            /\ UNCHANGED exists
    /\ UNCHANGED out
    /\ BuilderFrame

\* OpenOptions::new().append(true).create(true).open(path)? then Ok(Logger{..});
\* opened tells whether the open succeeds
to_file(s, r, path, opened) ==
    /\ nops < MaxOps
    /\ cfgs[s].live
    /\ ~cfgs[r].live
    /\ nops' = nops + 1
    /\ IF opened
       THEN /\ cfgs' = [cfgs EXCEPT ![r] =
                   WithSink(cfgs[s], path)]
            /\ exists' = [exists EXCEPT ![path] = TRUE]
            /\ UNCHANGED nfaults
       ELSE /\ nfaults' = [nfaults EXCEPT !.open = @ + 1]   \* Err(e) by `?`
            /\ UNCHANGED <<cfgs, exists>>
    /\ UNCHANGED out
    /\ BuilderFrame

sink(s, r, w) ==
    /\ nops < MaxOps
    /\ cfgs[s].live
    /\ ~cfgs[r].live
    /\ ~Owned(w)
    /\ cfgs' = [cfgs EXCEPT ![r] =
                   WithSink(cfgs[s], w)]
    /\ nops' = nops + 1
    /\ UNCHANGED <<out, exists, nfaults>>
    /\ BuilderFrame

time_format(s, tf) ==
    /\ nops < MaxOps
    /\ cfgs[s].live
    /\ cfgs' = [cfgs EXCEPT ![s] = WithTimeFormat(cfgs[s], tf)]
    /\ nops' = nops + 1
    /\ UNCHANGED <<out, exists, nfaults>>
    /\ BuilderFrame

max_log_level(s, lvl) ==
    /\ nops < MaxOps
    /\ cfgs[s].live
    /\ cfgs' = [cfgs EXCEPT ![s] = WithLevel(cfgs[s], lvl)]
    /\ nops' = nops + 1
    /\ UNCHANGED <<out, exists, nfaults>>
    /\ BuilderFrame

\* ----------------------------------------------------------------- enable
\* enable, first statement: log::set_max_level(self.level)
enable_set_max_level(t, s) ==
    /\ pc[t] = "idle"
    /\ cfgs[s].live
    /\ enabling' = [enabling EXCEPT ![t] = cfgs[s]]
    /\ cfgs' = [cfgs EXCEPT ![s] = NoCfg]
    /\ maxLevel' = cfgs[s].level
    /\ pc' = [pc EXCEPT ![t] = "set_logger"]
    /\ before' = [before EXCEPT ![t] = [installed |-> installed, maxLevel |-> maxLevel]]
    /\ UNCHANGED <<nops, installed, out, exists, lockHolder, poisoned, cur,
                    ncalls, nfaults, clock, tz, oks, done, acquired>>

\* (mutant) the stored logger is replaced
enable_set_boxed_logger_replacing(t) ==
    /\ pc[t] = "set_logger"
    /\ installed' = enabling[t]
    /\ oks' = [oks EXCEPT !.ok = @ + 1]
    /\ lockHolder' = 0
    /\ poisoned' = FALSE
    /\ before' = [before EXCEPT ![t] = NoBefore]
    /\ enabling' = [enabling EXCEPT ![t] = NoCfg]
    /\ pc' = [pc EXCEPT ![t] = "idle"]
    /\ UNCHANGED <<cfgs, nops, maxLevel, out, exists, cur, ncalls, nfaults,
                    clock, tz, done, acquired>>

\* enable, second statement: log::set_boxed_logger(Box::new(self)), which
\* stores the logger only if none was stored before
enable_set_boxed_logger(t) ==
    /\ pc[t] = "set_logger"
    /\ IF installed.live
       THEN /\ oks' = [oks EXCEPT !.err = @ + 1]     \* Err(SetLoggerError)
            /\ UNCHANGED <<installed, lockHolder, poisoned>>
       ELSE /\ oks' = [oks EXCEPT !.ok = @ + 1]      \* Ok(())
            /\ installed' = enabling[t]
            /\ lockHolder' = 0        \* the Mutex of the logger now installed
            /\ poisoned' = FALSE
    /\ before' = [before EXCEPT ![t] = NoBefore]
    /\ enabling' = [enabling EXCEPT ![t] = NoCfg]
    /\ pc' = [pc EXCEPT ![t] = "idle"]
    /\ UNCHANGED <<cfgs, nops, maxLevel, out, exists, cur, ncalls, nfaults,
                    clock, tz, done, acquired>>

\* ------------------------------------------------------------- formatting
\* OffsetDateTime::now_local(), or now_utc() when the local offset cannot be
\* determined
Now ==
    IF tz = "indeterminate" THEN [secs |-> clock, hour |-> "00", offset |-> "+0000"]
    ELSE [secs |-> clock, hour |-> "00", offset |-> "+0019:32"]

\* now.format(&Rfc2822) / now.format(&Rfc3339): both refuse an offset that has
\* a seconds component
FormatTime(now, tf) ==
    IF now.offset = "+0019:32"
    THEN [ok |-> FALSE, text |-> ""]
    ELSE IF tf = "Rfc2822"
    THEN [ok |-> TRUE,
          text |-> "Thu, 01 Jan 1970 " \o now.hour \o ":00:0" \o ToString(now.secs)
                   \o " " \o now.offset]
    ELSE [ok |-> TRUE,
          text |-> "1970-01-01T" \o now.hour \o ":00:0" \o ToString(now.secs)
                   \o (IF now.offset = "+0000" THEN "Z" ELSE "+01:00")]

\* (mutant) now.unwrap_or_default(): an empty time field
TimeFieldDefault(r) == r.text

\* now.unwrap_or("time error".to_string())
TimeField(r) == IF r.ok THEN r.text ELSE "time error"

\* thread::current().name(): the main thread is named, spawned ones are not
ThreadName(t) == IF t = 1 THEN <<"main">> ELSE <<>>

\* thread::current().name().unwrap_or("<unnamed>")
NameField(t) == IF ThreadName(t) # <<>> THEN ThreadName(t)[1] ELSE "<unnamed>"

\* format!("{:?}", thread::current().id())
IdField(t) == "ThreadId(" \o ToString(t) \o ")"

\* (mutant) the message is left out
FormatLineNoMessage(time, name, id, lvl, msg) ==
    <<"[", time, "] (", name, " ", id, ") [", LevelName(lvl), "] ">>

\* format!("[{}] ({} {:?}) [{}] {}", now, name, id, record.level(), record.args())
FormatLine(time, name, id, lvl, msg) ==
    <<"[", time, "] (", name, " ", id, ") [", LevelName(lvl), "] ", msg>>

\* the line eprintln! puts in front of the fallback line
Diagnostic == <<"error writing to sink, falling back to stderr: ", "io error", "\n">>

\* (mutant) every level is enabled
enabledAlways(self, lvl) == TRUE

\* impl Log for Logger: enabled
enabled(self, lvl) == lvl <= self.level

\* ---------------------------------------------------------------- logging
LogFrame ==
    UNCHANGED <<cfgs, nops, installed, maxLevel, exists, enabling, tz, before,
                oks>>

\* (mutant) a Mutex that does not exclude
CanLockAlways(t) == TRUE

\* Does the thread get the Mutex: only when no thread holds it
CanLock(t) == lockHolder = 0

\* One record handed to the facade, by a log macro (which first compares the
\* level with log::max_level()) or directly to log::logger().log().  Without an
\* installed logger the facade's no-op logger takes it and nothing happens.
\* impl Log::log returns at once when the level is not enabled; otherwise
\* Logger::log samples the clock and formats the line.
log_call(t, lvl, msg, viaMacro) ==
    /\ pc[t] = "idle"
    /\ ncalls < MaxCalls
    /\ IF ~installed.live
       THEN UNCHANGED <<cur, pc, clock, ncalls>>
       ELSE /\ ncalls' = ncalls + 1
            /\ IF (viaMacro /\ lvl > maxLevel) \/ ~enabled(installed, lvl)
               THEN UNCHANGED <<cur, pc, clock>>
               ELSE /\ cur' = [cur EXCEPT ![t] =
                          [level |-> lvl, msg |-> msg,
                           line |-> FormatLine(
                                       TimeField(FormatTime(Now, installed.time_format)),
                                       NameField(t), IdField(t), lvl, msg),
                           stamp |-> clock]]
                    /\ clock' = clock + 1
                    /\ pc' = [pc EXCEPT ![t] = "lock"]
    /\ UNCHANGED <<out, lockHolder, poisoned, nfaults, done>>
    /\ UNCHANGED acquired
    /\ LogFrame

\* the history entry of a call that ends: where its line went
Finished(t, path) ==
    Append(done, [thread |-> t, level |-> cur[t].level, msg |-> cur[t].msg,
                  line |-> cur[t].line, stamp |-> cur[t].stamp, path |-> path])

\* (mutant) the poison is ignored, as with lock().unwrap_or_else(into_inner)
LockArmIgnoringPoison(p) == "write_line"

\* the arm of `match self.sink.lock()` taken
LockArm(p) == IF p THEN "eprint_poisoned" ELSE "write_line"

\* (mutant) a lock that lets a thread in while another holds it
lock_barging(t) ==
    /\ pc[t] = "lock"
    /\ lockHolder' = t
    /\ pc' = [pc EXCEPT ![t] = LockArm(poisoned)]
    /\ acquired' = Append(acquired, [thread |-> t, stamp |-> cur[t].stamp])
    /\ UNCHANGED <<out, poisoned, cur, ncalls, nfaults, clock, done>>
    /\ LogFrame

\* self.sink.lock(): waits for the Mutex, then Ok(guard) or, when poisoned,
\* Err(PoisonError) which still holds the guard until the match ends
lock(t) ==
    /\ pc[t] = "lock"
    /\ CanLock(t)
    /\ lockHolder' = t
    /\ pc' = [pc EXCEPT ![t] = LockArm(poisoned)]
    /\ acquired' = Append(acquired, [thread |-> t, stamp |-> cur[t].stamp])
    /\ UNCHANGED <<out, poisoned, cur, ncalls, nfaults, clock, done>>
    /\ LogFrame

\* what a write to the sink can do: stderr takes it, a file write can fail, a
\* caller-supplied writer can fail or panic
WriteOutcomes(d) ==
    IF nfaults.err + nfaults.partial + nfaults.panic >= MaxFaults \/ d = "stderr"
    THEN {"ok"}
    ELSE IF d \in Paths THEN {"ok", "err"}
    ELSE {"ok", "err", "panic"}

\* (mutant) the unwinding does not drop the guard
PanicHolding(t) ==
    /\ lockHolder' = lockHolder
    /\ poisoned' = TRUE
    /\ pc' = [pc EXCEPT ![t] = "panicked"]
    /\ cur' = [cur EXCEPT ![t] = NoCall]
    /\ done' = Finished(t, "panic")

\* a panic unwinds through Logger::log: the guard is dropped while panicking,
\* which poisons the Mutex; the panic reaches the caller
Panic(t) ==
    /\ lockHolder' = 0
    /\ poisoned' = TRUE
    /\ pc' = [pc EXCEPT ![t] = "panicked"]
    /\ cur' = [cur EXCEPT ![t] = NoCall]
    /\ done' = Finished(t, "panic")

\* writeln!(sink, "{msg}"), first write_all: the line
write_line(t, outcome) ==
    /\ pc[t] = "write_line"
    /\ outcome \in WriteOutcomes(installed.sink)
    /\ nfaults' = IF outcome = "ok" THEN nfaults
                  ELSE IF outcome = "err" THEN [nfaults EXCEPT !.err = @ + 1]
                  ELSE [nfaults EXCEPT !.panic = @ + 1]
    /\ CASE outcome = "ok" ->
              /\ out' = [out EXCEPT ![installed.sink] = @ \o cur[t].line]
              /\ pc' = [pc EXCEPT ![t] = "write_newline"]
              /\ UNCHANGED <<lockHolder, poisoned, done, cur>>
         [] outcome = "err" ->
              /\ pc' = [pc EXCEPT ![t] = "eprint_diagnostic"]
              /\ UNCHANGED <<out, lockHolder, poisoned, done, cur>>
         [] outcome = "panic" ->
              /\ Panic(t)
              /\ UNCHANGED out
    /\ UNCHANGED <<ncalls, clock>>
    /\ UNCHANGED acquired
    /\ LogFrame

\* writeln!(sink, "{msg}"), second write_all: the newline; on Ok the match ends
\* and the guard is dropped
write_newline(t, outcome) ==
    /\ pc[t] = "write_newline"
    /\ outcome \in WriteOutcomes(installed.sink)
    /\ nfaults' = IF outcome = "ok" THEN nfaults
                  ELSE IF outcome = "err" THEN [nfaults EXCEPT !.partial = @ + 1]
                  ELSE [nfaults EXCEPT !.panic = @ + 1]
    /\ CASE outcome = "ok" ->
              /\ out' = [out EXCEPT ![installed.sink] = Append(@, "\n")]
              /\ pc' = [pc EXCEPT ![t] = "idle"]
              /\ lockHolder' = 0
              /\ done' = Finished(t, "sink")
              /\ cur' = [cur EXCEPT ![t] = NoCall]
              /\ UNCHANGED poisoned
         [] outcome = "err" ->
              /\ pc' = [pc EXCEPT ![t] = "eprint_diagnostic"]
              /\ UNCHANGED <<out, lockHolder, poisoned, done, cur>>
         [] outcome = "panic" ->
              /\ Panic(t)
              /\ UNCHANGED out
    /\ UNCHANGED <<ncalls, clock>>
    /\ UNCHANGED acquired
    /\ LogFrame

\* (mutant) the fallback without its diagnostic
eprint_diagnostic_silent(t) ==
    /\ pc[t] = "eprint_diagnostic"
    /\ pc' = [pc EXCEPT ![t] = "eprint_msg"]
    /\ UNCHANGED <<out, lockHolder, poisoned, cur, ncalls, nfaults, clock, done>>
    /\ UNCHANGED acquired
    /\ LogFrame

\* eprintln!("error writing to sink, falling back to stderr: {e}")
eprint_diagnostic(t) ==
    /\ pc[t] = "eprint_diagnostic"
    /\ out' = [out EXCEPT !["stderr"] = @ \o Diagnostic]
    /\ pc' = [pc EXCEPT ![t] = "eprint_msg"]
    /\ UNCHANGED <<lockHolder, poisoned, cur, ncalls, nfaults, clock, done>>
    /\ UNCHANGED acquired
    /\ LogFrame

\* (mutant) the fallback prints the diagnostic only
eprint_msg_missing(t) ==
    /\ pc[t] = "eprint_msg"
    /\ pc' = [pc EXCEPT ![t] = "idle"]
    /\ lockHolder' = 0
    /\ done' = Finished(t, "write_error")
    /\ cur' = [cur EXCEPT ![t] = NoCall]
    /\ UNCHANGED <<out, poisoned, ncalls, nfaults, clock>>
    /\ UNCHANGED acquired
    /\ LogFrame

\* eprintln!("{msg}") after a failed write; the match ends, the guard is dropped
eprint_msg(t) ==
    /\ pc[t] = "eprint_msg"
    /\ out' = [out EXCEPT !["stderr"] = Append(@ \o cur[t].line, "\n")]
    /\ pc' = [pc EXCEPT ![t] = "idle"]
    /\ lockHolder' = 0
    /\ done' = Finished(t, "write_error")
    /\ cur' = [cur EXCEPT ![t] = NoCall]
    /\ UNCHANGED <<poisoned, ncalls, nfaults, clock>>
    /\ UNCHANGED acquired
    /\ LogFrame

\* (mutant) the guard inside the PoisonError is leaked instead of dropped
eprint_poisoned_leaking(t) ==
    /\ pc[t] = "eprint_poisoned"
    /\ out' = [out EXCEPT !["stderr"] = Append(@ \o cur[t].line, "\n")]
    /\ pc' = [pc EXCEPT ![t] = "idle"]
    /\ done' = Finished(t, "poisoned")
    /\ cur' = [cur EXCEPT ![t] = NoCall]
    /\ UNCHANGED <<lockHolder, poisoned, ncalls, nfaults, clock>>
    /\ UNCHANGED acquired
    /\ LogFrame

\* eprintln!("{msg}") in the Err(_) arm; the match ends, the guard is dropped
eprint_poisoned(t) ==
    /\ pc[t] = "eprint_poisoned"
    /\ out' = [out EXCEPT !["stderr"] = Append(@ \o cur[t].line, "\n")]
    /\ pc' = [pc EXCEPT ![t] = "idle"]
    /\ lockHolder' = 0
    /\ done' = Finished(t, "poisoned")
    /\ cur' = [cur EXCEPT ![t] = NoCall]
    /\ UNCHANGED <<poisoned, ncalls, nfaults, clock>>
    /\ UNCHANGED acquired
    /\ LogFrame

\* ------------------------------------------------------------ specification
\* the builder calls
Configure ==
    \/ \E s \in Slots : new_log(s)
    \/ \E s, r \in Slots, p \in Paths, opened \in BOOLEAN : to_file(s, r, p, opened)
    \/ \E s, r \in Slots, w \in CustomSinks : sink(s, r, w)
    \/ \E s \in Slots, tf \in TimeFormat : time_format(s, tf)
    \/ \E s \in Slots, lvl \in LevelArgs : max_log_level(s, lvl)

\* an enable() call begins
BeginEnable == \E t \in Threads, s \in Slots : enable_set_max_level(t, s)

\* an enable() call ends
EndEnable == \E t \in Threads : enable_set_boxed_logger(t)

\* the log calls
Logging ==
    \/ \E t \in Threads, r \in Records, viaMacro \in BOOLEAN :
          log_call(t, r[1], r[2], viaMacro)
    \/ \E t \in Threads : lock(t)
    \/ \E t \in Threads, o \in {"ok", "err", "panic"} : write_line(t, o)
    \/ \E t \in Threads, o \in {"ok", "err", "panic"} : write_newline(t, o)
    \/ \E t \in Threads : eprint_diagnostic(t)
    \/ \E t \in Threads : eprint_msg(t)
    \/ \E t \in Threads : eprint_poisoned(t)

\* every program: builder calls, enable calls and log calls in any order
Next == Configure \/ BeginEnable \/ EndEnable \/ Logging

Spec == Init /\ [][Next]_vars

\* the programs that only build and enable Loggers
NextBuild == Configure \/ BeginEnable \/ EndEnable

SpecBuild == Init /\ [][NextBuild]_vars

\* The Loggers the builder can produce.
Loggers ==
    {[live |-> TRUE, sink |-> d, time_format |-> tf, level |-> lvl,
      asked |-> Asked(tf, lvl, d)] :
        d \in Dests, tf \in TimeFormat, lvl \in LevelArgs \cup {Info}}

\* The state after an enable() call has returned Ok: any Logger the builder can
\* produce is installed and the caller holds no other.  The global maximum
\* level is the installed Logger's or the one left by an enable() call that
\* failed.  A log file that was opened exists, with its old content if it had
\* any.
InitLog ==
    /\ cfgs = [s \in Slots |-> NoCfg]
    /\ nops = 0
    /\ installed \in Loggers
    /\ maxLevel \in LevelArgs \cup {Info}
    /\ exists \in [Paths -> BOOLEAN]
    /\ installed.sink \in Paths => exists[installed.sink]
    /\ out \in [Dests -> {<<>>, OldContent}]
    /\ \A d \in Dests :
          out[d] = OldContent
          => d \in Paths /\ exists[d]
    /\ \A d \in Paths : (exists[d] /\ d # installed.sink) => out[d] = OldContent
    /\ lockHolder = 0
    /\ poisoned = FALSE
    /\ pc = [t \in Threads |-> "idle"]
    /\ enabling = [t \in Threads |-> NoCfg]
    /\ cur = [t \in Threads |-> NoCall]
    /\ ncalls = 0
    /\ nfaults = [err |-> 0, partial |-> 0, panic |-> 0, open |-> 0]
    /\ clock = 1
    /\ tz \in TzEnv
    /\ before = [t \in Threads |-> NoBefore]
    /\ oks = [ok |-> 1, err |-> 0]
    /\ done = <<>>
    /\ acquired = <<>>

\* the programs that log through an installed logger
SpecLog == InitLog /\ [][Logging]_vars

\* the steps thread t takes inside a log call once the line is formatted
InCallStep(t) ==
    \/ lock(t)
    \/ \E o \in {"ok", "err", "panic"} : write_line(t, o)
    \/ \E o \in {"ok", "err", "panic"} : write_newline(t, o)
    \/ eprint_diagnostic(t)
    \/ eprint_msg(t)
    \/ eprint_poisoned(t)

\* the same programs with every thread scheduled fairly and every write to the
\* Destination or stderr completing
SpecLogFair == SpecLog /\ \A t \in Threads : WF_vars(InCallStep(t))

\* ------------------------------------------------------- reading the output
\* what an existing file held before this process ran
Old(d) ==
    IF d \in Paths /\ Len(out[d]) >= Len(OldContent)
                   /\ SubSeq(out[d], 1, Len(OldContent)) = OldContent
    THEN OldContent ELSE <<>>

\* what this process has written to destination d
Written(d) == SubSeq(out[d], Len(Old(d)) + 1, Len(out[d]))

\* the complete (newline-terminated) lines of a text, without their newlines
RECURSIVE SplitLines(_, _)
SplitLines(text, acc) ==
    IF text = <<>> THEN <<>>
    ELSE IF Head(text) = "\n" THEN <<acc>> \o SplitLines(Tail(text), <<>>)
    ELSE SplitLines(Tail(text), Append(acc, Head(text)))

Lines(text) == SplitLines(text, <<>>)

\* the tokens after the last newline of a text
RECURSIVE Unterminated(_, _)
Unterminated(text, acc) ==
    IF text = <<>> THEN acc
    ELSE IF Head(text) = "\n" THEN Unterminated(Tail(text), <<>>)
    ELSE Unterminated(Tail(text), Append(acc, Head(text)))

Occurrences(x, seq) == Cardinality({i \in 1..Len(seq) : seq[i] = x})

HasToken(line, tok) == \E i \in 1..Len(line) : line[i] = tok

Quiet == \A t \in Threads : pc[t] \in {"idle", "panicked"}

DoneWith(path) == {i \in 1..Len(done) : done[i].path = path}

\* ------------------------------------------------------------------ claims

\* C1: when every sink write succeeded and all log calls have returned, the
\* Destination holds, after what it held before, exactly the lines of the calls
\* made, each whole and followed by its newline, nothing left over: as many
\* complete lines as calls, none truncated, merged or interleaved.
C1_CompleteLines ==
    (installed.live /\ Quiet /\ nfaults = [err |-> 0, partial |-> 0, panic |-> 0, open |-> 0])
    => /\ Lines(Written(installed.sink)) = [i \in 1..Len(done) |-> done[i].line]
       /\ Unterminated(Written(installed.sink), <<>>) = <<>>
       /\ Len(Lines(Written(installed.sink))) = Len(done)

\* two threads' calls overlapped: the call stamped later wrote first
C1_Witness ==
    /\ installed.live /\ Quiet /\ nfaults = [err |-> 0, partial |-> 0, panic |-> 0, open |-> 0]
    /\ Len(done) = 2
    /\ done[1].thread # done[2].thread
    /\ done[1].stamp > done[2].stamp
    /\ Len(Lines(Written(installed.sink))) = 2

C3_FailedEnableChangesNothing ==
    [][\A t \in Threads :
         (pc[t] = "set_logger" /\ pc'[t] = "idle" /\ before[t].installed.live)
         => /\ oks' = [oks EXCEPT !.err = @ + 1]
            /\ installed' = before[t].installed
            /\ maxLevel' = before[t].maxLevel]_vars

\* C4: a log call whose level is above the logger's level changes nothing: no
\* line, Destination and stderr as before, Mutex not taken, whatever the
\* process-wide level, the time format and the Mutex state are; and a record
\* that reaches the logger is processed exactly when its level is at most the
\* logger's.
C4_DisabledUntouched ==
    [][\A t \in Threads, r \in Records, viaMacro \in BOOLEAN :
         (installed.live /\ log_call(t, r[1], r[2], viaMacro))
         => /\ (r[1] > installed.level)
                 => UNCHANGED <<out, done, clock, lockHolder, poisoned, pc, cur>>
            /\ ~(viaMacro /\ r[1] > maxLevel)
                 => (pc'[t] = "lock" <=> r[1] <= installed.level)]_vars

\* a disabled record has just been given to the logger while another thread
\* holds the Mutex and the process-wide level would let the record through
C4_Witness ==
    /\ installed.live
    /\ ncalls = 2 /\ Len(done) = 0
    /\ \E t \in Threads : pc[t] = "write_newline" /\ lockHolder = t
    /\ \E t \in Threads : pc[t] = "idle"
    /\ \E r \in Records : r[1] > installed.level /\ r[1] <= maxLevel

\* the complete lines this process has put on the Destination and on stderr
Emitted ==
    Lines(Written(installed.sink))
       \o (IF installed.sink = "stderr" THEN <<>> ELSE Lines(out["stderr"]))

IsDiagnostic(line) == line \o <<"\n">> = Diagnostic

Returned == {i \in 1..Len(done) : done[i].path # "panic"}

\* each call that returned has its line among the emitted lines once, the
\* line names the record's level and carries its message, and no other line
\* (but the diagnostic of a failed write) was emitted
OneLinePerCall ==
    /\ \A i \in Returned :
          /\ Occurrences(done[i].line, Emitted)
               = Cardinality({j \in Returned : done[j].line = done[i].line})
          /\ HasToken(done[i].line, done[i].msg)
          /\ HasToken(done[i].line, LevelName(done[i].level))
    /\ Cardinality({k \in 1..Len(Emitted) : ~IsDiagnostic(Emitted[k])})
         = Cardinality(Returned)

C6_DocumentedLayout ==
    \A t \in Threads :
       cur[t].line # <<>>
       => cur[t].line = <<"[", cur[t].line[2], "] (", NameField(t), " ", IdField(t),
                          ") ", LevelName(cur[t].level), " ", cur[t].msg>>

\* C7: a call that finds the Mutex poisoned writes nothing to the sink, puts its
\* line on stderr and returns; once poisoned, the Mutex stays poisoned.
C7_PoisonedFallsBack ==
    [][/\ poisoned => poisoned'
       /\ \A t \in Threads :
            /\ (pc[t] = "lock" /\ pc'[t] # "lock" /\ poisoned)
                 => pc'[t] = "eprint_poisoned" /\ out' = out
            /\ (pc[t] = "eprint_poisoned" /\ pc'[t] # "eprint_poisoned")
                 => /\ pc'[t] = "idle"
                    /\ out'["stderr"] = out["stderr"] \o cur[t].line \o <<"\n">>
                    /\ \A d \in Dests \ {"stderr"} : out'[d] = out[d]
                    /\ done' = Append(done, [thread |-> t, level |-> cur[t].level,
                                             msg |-> cur[t].msg, line |-> cur[t].line,
                                             stamp |-> cur[t].stamp, path |-> "poisoned"])]_vars

\* a panicking writer poisoned the Mutex and a later call fell back to stderr
C7_Witness ==
    /\ poisoned
    /\ \E i \in DoneWith("poisoned") :
          /\ installed.sink # "stderr"
          /\ HasToken(Lines(out["stderr"]), done[i].line)
          /\ pc[done[i].thread] = "idle"

\* C8: registration goes from uninstalled to installed once and stays: at most
\* one enable() returns Ok, it stores the Logger it was called on, the stored
\* logger never changes afterwards, and nothing is written while no logger is
\* installed, nor ever to a destination other than the installed logger's sink
\* and stderr.
C8_Registration ==
    /\ [](oks.ok <= 1 /\ (oks.ok = 1 <=> installed.live))
    /\ [](~installed.live => \A d \in Dests : Written(d) = <<>>)
    /\ [](installed.live
            => \A d \in Dests \ {installed.sink, "stderr"} : Written(d) = <<>>)
    /\ [][/\ installed.live => installed' = installed
          /\ \A t \in Threads :
               enable_set_boxed_logger(t)
               => IF installed.live
                  THEN oks' = [oks EXCEPT !.err = @ + 1]
                  ELSE oks' = [oks EXCEPT !.ok = @ + 1] /\ installed' = enabling[t]
          /\ (~installed.live /\ installed'.live)
               => \E t \in Threads : enable_set_boxed_logger(t)]_vars

\* a second enable() has failed, another Logger is still held by the caller,
\* and the installed one has written a line
C8_Witness ==
    /\ installed.live /\ oks = [ok |-> 1, err |-> 1]
    /\ DoneWith("sink") # {}
    /\ \E s \in Slots : cfgs[s].live /\ cfgs[s].sink \notin {installed.sink, "stderr"}

\* the Logger in slot r is the receiver in slot s with destination d, and the
\* receiver is as it was
Carried(s, r, d) ==
    /\ s # r
    /\ cfgs'[r].live
    /\ cfgs'[r].time_format = cfgs[s].time_format
    /\ cfgs'[r].level = cfgs[s].level
    /\ cfgs'[r].sink = d
    /\ cfgs[s].live
    /\ cfgs'[s] = cfgs[s]

\* C9: a successful to_file or sink call returns a new Logger with the
\* receiver's time format and level and the new destination, and leaves the
\* receiver as it was, still usable.
C9_NonDestructive ==
    [][\A s, r \in Slots :
         /\ \A p \in Paths : to_file(s, r, p, TRUE) => Carried(s, r, p)
         /\ \A w \in CustomSinks : sink(s, r, w) => Carried(s, r, w)]_vars

\* a Logger with a non-default format was given a file, and both Loggers exist
C9_Witness ==
    /\ nops = 3
    /\ \E s, r \in Slots :
          /\ cfgs[s].live /\ cfgs[r].live
          /\ cfgs[s].sink = "stderr" /\ cfgs[r].sink \in Paths
          /\ cfgs[s].time_format = "Rfc3339" /\ cfgs[r].time_format = "Rfc3339"

\* C10: a Logger's time format, level and sink are what the last time_format,
\* max_log_level and to_file/sink call of its chain asked for, or new_log's
\* Rfc2822, Info and stderr; time_format and max_log_level change their own
\* field only.
C10_LastCallWins ==
    /\ [](\A s \in Slots :
            cfgs[s].live
            => /\ cfgs[s].time_format = cfgs[s].asked.tf
               /\ cfgs[s].level = cfgs[s].asked.lvl
               /\ cfgs[s].sink = cfgs[s].asked.dest)
    /\ [][\A s \in Slots :
            /\ new_log(s)
                 => /\ cfgs'[s].time_format = "Rfc2822"
                    /\ cfgs'[s].level = Info
                    /\ cfgs'[s].sink = "stderr"
            /\ \A tf \in TimeFormat :
                 time_format(s, tf)
                 => /\ cfgs'[s].time_format = tf
                    /\ cfgs'[s].sink = cfgs[s].sink
                    /\ cfgs'[s].level = cfgs[s].level
            /\ \A lvl \in LevelArgs :
                 max_log_level(s, lvl)
                 => /\ cfgs'[s].level = lvl
                    /\ cfgs'[s].sink = cfgs[s].sink
                    /\ cfgs'[s].time_format = cfgs[s].time_format]_vars

\* a chain that set a format and a level
C10_Witness ==
    /\ nops = 3
    /\ \E s \in Slots :
          cfgs[s].live /\ cfgs[s].time_format = "Rfc3339" /\ cfgs[s].level = 5

\* is text a the beginning of text b
IsPrefix(a, b) == Len(a) <= Len(b) /\ SubSeq(b, 1, Len(a)) = a

\* the lines of the calls that wrote to the sink, in the order they finished
RECURSIVE SinkLines(_)
SinkLines(h) ==
    IF h = <<>> THEN <<>>
    ELSE IF Head(h).path = "sink" THEN <<Head(h).line>> \o SinkLines(Tail(h))
    ELSE SinkLines(Tail(h))

\* no step takes anything away from a file: what it held stays at its
\* beginning, a file that exists keeps existing, and a successful to_file
\* leaves the file existing with the content it had (none if it was absent)
AppendStep ==
    \A p \in Paths :
       /\ IsPrefix(out[p], out'[p])
       /\ exists[p] => exists'[p]
       /\ \A s, r \in Slots :
            to_file(s, r, p, TRUE) => exists'[p] /\ out'[p] = out[p]

\* what was added to the installed logger's file is whole lines: the lines of
\* the calls that wrote to it, each with its newline, and nothing else
WholeLinesAdded ==
    \A p \in Paths :
       (installed.live /\ installed.sink = p /\ Quiet)
       => /\ Lines(Written(p)) = SinkLines(done)
          /\ Unterminated(Written(p), <<>>) = <<>>

SameButTime(a, b) ==
    /\ Len(a) = Len(b)
    /\ \A i \in (1..Len(a)) \ {2} : a[i] = b[i]

\* the line, followed by its newline, is in the text
Delivered(line, text) ==
    \E k \in 1..Len(text) :
       /\ k + Len(line) <= Len(text)
       /\ SubSeq(text, k, k + Len(line)) = line \o <<"\n">>

\* C12: when the timestamp cannot be rendered the call goes on as any other:
\* the line's time field is exactly 'time error', its other fields are those
\* of the line with a rendered time, the line is emitted on the sink or on
\* stderr, and the call returns without reporting the failure.
C12_TimeError ==
    /\ [][\A t \in Threads, r \in Records, viaMacro \in BOOLEAN :
            (/\ installed.live
             /\ log_call(t, r[1], r[2], viaMacro)
             /\ ~FormatTime(Now, installed.time_format).ok
             /\ enabled(installed, r[1])
             /\ ~(viaMacro /\ r[1] > maxLevel))
            => /\ pc'[t] = "lock"
               /\ cur'[t].line[2] = "time error"
               /\ FormatTime([Now EXCEPT !.offset = "+0000"], installed.time_format).ok
               /\ SameButTime(cur'[t].line,
                     FormatLine(FormatTime([Now EXCEPT !.offset = "+0000"],
                                           installed.time_format).text,
                                NameField(t), IdField(t), r[1], r[2]))]_vars
    /\ [](\A i \in Returned :
            /\ (done[i].line[2] = "time error") <=> (tz = "seconds")
            /\ Delivered(done[i].line, out[installed.sink])
                 \/ Delivered(done[i].line, out["stderr"]))

\* the offset had a seconds part; both threads' calls returned, one line on
\* the sink and one on stderr after a failed write, both with 'time error'
C12_Witness ==
    /\ tz = "seconds" /\ Quiet /\ installed.time_format = "Rfc3339"
    /\ Len(done) = 2
    /\ {done[1].path, done[2].path} = {"sink", "write_error"}
    /\ \A i \in 1..2 : done[i].line[2] = "time error"

\* C13 (as claimed): whenever a logger is installed and no enable() call is in
\* progress, the process-wide maximum level is the installed logger's level.
C13_MaxLevelIsInstalled ==
    (installed.live /\ \A t \in Threads : pc[t] # "set_logger")
    => maxLevel = installed.level

\* the thread is inside `match self.sink.lock() { .. }`
InMatch(p) ==
    p \in {"write_line", "write_newline", "eprint_diagnostic", "eprint_msg",
           "eprint_poisoned"}

\* C14: the Mutex is held by exactly the thread that is inside the match, so at
\* most one thread is there; every write to the Destination (and to stderr) is
\* done by that thread; and the Mutex is free again when the call ends, after a
\* successful write, a failed write, a poisoned lock or a panic.
C14_LockDiscipline ==
    /\ [](\A t \in Threads : InMatch(pc[t]) <=> lockHolder = t)
    /\ [](lockHolder \in Threads \cup {0})
    /\ [][/\ out' # out
             => /\ lockHolder \in Threads
                /\ InMatch(pc[lockHolder])
                /\ pc'[lockHolder] # pc[lockHolder]
                /\ \A u \in Threads \ {lockHolder} : pc'[u] = pc[u]
          /\ \A t \in Threads :
               (InMatch(pc[t]) /\ ~InMatch(pc'[t]))
               => lockHolder' = 0 /\ pc'[t] \in {"idle", "panicked"}]_vars

\* a call whose write failed has returned and released the Mutex, and the
\* other thread, which holds it now, is between its two writes
C14_Witness ==
    /\ Len(done) = 1 /\ done[1].path = "write_error"
    /\ \E t \in Threads :
          /\ t # done[1].thread
          /\ lockHolder = t
          /\ pc[t] = "write_newline"
          /\ pc[done[1].thread] = "idle"

\* the lines of the calls that got the Mutex and wrote to the sink, in the
\* order they got the Mutex
RECURSIVE AcquiredSinkLines(_)
AcquiredSinkLines(a) ==
    IF a = <<>> THEN <<>>
    ELSE (IF \E i \in DoneWith("sink") : done[i].stamp = Head(a).stamp
          THEN <<(CHOOSE l \in {done[i].line : i \in DoneWith("sink")} :
                    \E i \in DoneWith("sink") :
                       done[i].stamp = Head(a).stamp /\ done[i].line = l)>>
          ELSE <<>>)
         \o AcquiredSinkLines(Tail(a))

\* the pieces one statement of the call puts out
Pieces(t) == {cur[t].line, <<"\n">>, Diagnostic, Append(cur[t].line, "\n")}

\* C15: the Destination's lines are in the order in which the calls got the
\* Mutex: whatever is written goes to the end and comes from the call that got
\* the Mutex last; calls end in the order they got it; one thread's calls get
\* it in the order they were issued.  (Timestamps of different threads may be
\* out of order: C15_Witness.)
C15_LockOrder ==
    /\ [][out' # out
            => /\ acquired # <<>>
               /\ cur[acquired[Len(acquired)].thread].stamp
                     = acquired[Len(acquired)].stamp
               /\ \E d \in {installed.sink, "stderr"} :
                     /\ \E x \in Pieces(acquired[Len(acquired)].thread) :
                           out'[d] = out[d] \o x
                     /\ \A e \in Dests \ {d} : out'[e] = out[e]]_vars
    /\ [](/\ Len(done) <= Len(acquired)
          /\ \A i \in 1..Len(done) :
                /\ done[i].stamp = acquired[i].stamp
                /\ done[i].thread = acquired[i].thread)
    /\ [](\A i, j \in 1..Len(acquired) :
            (i < j /\ acquired[i].thread = acquired[j].thread)
            => acquired[i].stamp < acquired[j].stamp)
    /\ []((installed.live /\ nfaults.partial = 0
              /\ \A t \in Threads : pc[t] # "write_newline")
            => Lines(Written(installed.sink)) = AcquiredSinkLines(acquired))

\* the thread that sampled the clock second got the Mutex first: the file has
\* the two lines in the order of the lock, against their timestamps
C15_Witness ==
    /\ installed.live /\ installed.sink \in Paths /\ Quiet
    /\ Len(acquired) = 2
    /\ acquired[1].stamp > acquired[2].stamp
    /\ Len(Lines(Written(installed.sink))) = 2
    /\ Lines(Written(installed.sink))[1] = done[1].line
    /\ done[1].stamp = acquired[1].stamp

\* C16: every log call ends: a thread that has formatted its line gets the
\* Mutex and leaves the call (returning, or unwinding when the writer
\* panicked), whether writes fail or the Mutex is poisoned; a thread waiting
\* for the Mutex waits for a thread that is inside the match, never for one
\* that has left.
C16_CallsEnd ==
    /\ \A t \in Threads :
          (pc[t] \notin {"idle", "panicked"}) ~> (pc[t] \in {"idle", "panicked"})
    /\ \A t \in Threads : (pc[t] = "lock") ~> (lockHolder = t)
    /\ [](\A t \in Threads :
            pc[t] = "lock"
            => \/ lockHolder = 0
               \/ lockHolder \in Threads \ {t} /\ InMatch(pc[lockHolder]))

\* a thread waits for the Mutex while the holder is on the write-failure path
C16_Witness ==
    \E t, u \in Threads :
       /\ pc[t] = "lock"
       /\ lockHolder = u
       /\ pc[u] = "eprint_diagnostic"
       /\ nfaults.partial = 1

\* C17: a to_file whose open fails yields no Logger and changes nothing: the
\* receiver keeps its sink, time format and level and is still the caller's,
\* no other Logger appears, the installed logger, the process-wide level, the
\* files and every destination are as before.
C17_FailedOpenChangesNothing ==
    [][\A s, r \in Slots, p \in Paths :
         to_file(s, r, p, FALSE)
         => /\ cfgs' = cfgs
            /\ cfgs'[s].live /\ ~cfgs'[r].live
            /\ installed' = installed /\ maxLevel' = maxLevel
            /\ exists' = exists /\ out' = out
            /\ pc' = pc /\ enabling' = enabling /\ oks' = oks]_vars

\* after an open that failed, the receiver (with the format it was given) was
\* enabled and is the installed logger
C17_Witness ==
    /\ nfaults.open = 1 /\ nops = 3
    /\ installed.live /\ oks = [ok |-> 1, err |-> 0]
    /\ installed.sink = "stderr" /\ installed.time_format = "Rfc3339"
    /\ \A s \in Slots : ~cfgs[s].live

\* what the calls that fell back put on stderr, in the order they ended: the
\* diagnostic and the line after a failed write, the line alone on a poisoned
\* Mutex
RECURSIVE FallbackLines(_)
FallbackLines(h) ==
    IF h = <<>> THEN <<>>
    ELSE (CASE Head(h).path = "write_error" ->
                  <<SubSeq(Diagnostic, 1, Len(Diagnostic) - 1), Head(h).line>>
            [] Head(h).path = "poisoned" -> <<Head(h).line>>
            [] OTHER -> <<>>)
         \o FallbackLines(Tail(h))

\* how often the tokens of the line occur, in a row, in the text
CountIn(line, text) ==
    Cardinality({k \in 1..Len(text) :
                   /\ k + Len(line) - 1 <= Len(text)
                   /\ SubSeq(text, k, k + Len(line) - 1) = line})

\* all calls have ended; the Destination holds the lines of the calls whose
\* write succeeded and nothing else, stderr holds the lines of the calls that
\* fell back, each after its diagnostic when a write had failed, and nothing
\* else; the text of every line is in one place, once per call (a writer that
\* panicked may have left the text of its call in the Destination)
OnePlace ==
    /\ Lines(Written(installed.sink)) = SinkLines(done)
    /\ nfaults.panic = 0 => Unterminated(Written(installed.sink), <<>>) = <<>>
    /\ installed.sink # "stderr" => Lines(out["stderr"]) = FallbackLines(done)
    /\ installed.sink # "stderr" => Unterminated(out["stderr"], <<>>) = <<>>
    /\ nfaults.panic = 0
         => \A i \in Returned :
               CountIn(done[i].line, out[installed.sink])
                 + (IF installed.sink = "stderr" THEN 0
                    ELSE CountIn(done[i].line, out["stderr"]))
               = Cardinality({j \in Returned : done[j].line = done[i].line})

====
